---- MODULE Spec2Model ----
(***************************************************************************)
(* Model of the task REST backend (src/unnamed/part_002, the current       *)
(* version of the server at lines 214-375, over the table declared in      *)
(* src/src/db/schema.ts).  One step of the model is one HTTP request       *)
(* served from the first middleware to the response.                       *)
(*                                                                         *)
(* Strings the code inspects (topic, category, content, the :id path       *)
(* parameter) are sequences of one-character strings, so that length,      *)
(* trim() and parseInt() are computed and not assumed.                     *)
(***************************************************************************)
EXTENDS Integers, Sequences, FiniteSets, TLC

VARIABLES tasks, nextId, now, req, resp, calls, upstream

vars == <<tasks, nextId, now, req, resp, calls, upstream>>

----------------------------------------------------------------------------
(* Bounds *)

\* largest id the serial column hands out in a run
MaxId == 2
\* longest contents array of a bulk-create body
MaxContents == 2

----------------------------------------------------------------------------
(* Values *)

Users == {"A", "B"}
\* getAuth(c)?.userId is null or undefined
NoUser == "none"
Principals == Users \cup {NoUser}

\* SQL NULL of the parent_id column
Null == 0

Space == " "
General == <<"G", "e", "n", "e", "r", "a", "l">>
All == <<"a", "l", "l">>

\* JSON values of a body field: undefined (absent), a boolean, a string
Undef == [t |-> "undefined", b |-> FALSE, s |-> <<>>]
JBool(x) == [t |-> "boolean", b |-> x, s |-> <<>>]
JStr(x) == [t |-> "string", b |-> FALSE, s |-> x]

\* input alphabets
TopicStrs == {<<>>, <<"a">>, <<"a", "b">>}
CategoryStrs == {<<>>, <<Space>>, <<Space, "w">>}
ContentStrs == {<<>>, <<"x">>}
CategoryJson == {Undef} \cup {JStr(s) : s \in CategoryStrs}
ContentJson == {Undef, JStr(<<>>), JStr(<<"y">>)}
IsCompletedJson == {Undef, JBool(TRUE), JBool(FALSE), JStr(<<"y">>)}

SeqsUpTo(S, n) == UNION {[1..k -> S] : k \in 0..n}
ContentsArrays == SeqsUpTo(ContentStrs, MaxContents)

Range(s) == {s[i] : i \in 1..Len(s)}

----------------------------------------------------------------------------
(* String functions of the runtime *)

\* String.prototype.trim: drop leading and trailing white space
RECURSIVE TrimLeft(_)
TrimLeft(s) == IF s # <<>> /\ Head(s) = Space THEN TrimLeft(Tail(s)) ELSE s

RECURSIVE TrimRight(_)
TrimRight(s) ==
    IF s # <<>> /\ s[Len(s)] = Space THEN TrimRight(SubSeq(s, 1, Len(s) - 1)) ELSE s

Trim(s) == TrimRight(TrimLeft(s))

Digits == <<"1", "2", "3", "4", "5", "6", "7", "8", "9">>
IsDigit(c) == \E d \in 1..Len(Digits) : Digits[d] = c
DigitVal(c) == CHOOSE d \in 1..Len(Digits) : Digits[d] = c

\* parseInt(c.req.param('id')): the value of the leading digits, NaN without any
NaN == -1
RECURSIVE ParseDigits(_, _)
ParseDigits(s, acc) ==
    IF s # <<>> /\ IsDigit(Head(s))
    THEN ParseDigits(Tail(s), 10 * acc + DigitVal(Head(s)))
    ELSE acc

parseInt(s) == IF s # <<>> /\ IsDigit(Head(s)) THEN ParseDigits(s, 0) ELSE NaN

IdParams == {<<Digits[i]>> : i \in 1..(MaxId + 1)} \cup {<<"x">>}

----------------------------------------------------------------------------
(* The tasks table (schema.ts) and its queries *)

\* one row as an insert of the bulk handler stores it: the columns the
\* handler leaves out take the defaults of the table
NewRow(id, userId, topic, category, content, createdAt) ==
    [id |-> id, userId |-> userId, topic |-> topic, category |-> category,
     content |-> content, isCompleted |-> FALSE, parentId |-> Null,
     createdAt |-> createdAt]

RowsOf(userId) == {r \in tasks : r.userId = userId}

\* a result set ordered by created_at descending; rows with equal stamps
\* come in any order
IsPermOf(s, S) ==
    /\ Len(s) = Cardinality(S)
    /\ Range(s) = S

\* mutant: the result set comes oldest first
OrderedAsc(S) ==
    {s \in [1..Cardinality(S) -> S] :
        /\ IsPermOf(s, S)
        /\ \A i \in 1..(Len(s) - 1) : s[i].createdAt <= s[i + 1].createdAt}

OrderedDesc(S) ==
    {s \in [1..Cardinality(S) -> S] :
        /\ IsPermOf(s, S)
        /\ \A i \in 1..(Len(s) - 1) : s[i].createdAt >= s[i + 1].createdAt}

\* mutant: the topic filter is compared with the category column
TasksWhereCategoryColumn(r, userId, topic) ==
    /\ r.userId = userId
    /\ (topic.t = "string" /\ topic.s # <<>>) => r.category = topic.s

\* GET /tasks: and(eq(userId), topic ? eq(topic) : undefined)
TasksWhere(r, userId, topic) ==
    /\ r.userId = userId
    /\ (topic.t = "string" /\ topic.s # <<>>) => r.topic = topic.s

TasksRows(userId, topic) == {r \in tasks : TasksWhere(r, userId, topic)}

\* ... orderBy(desc(createdAt))
TasksQuery(userId, topic) == OrderedDesc(TasksRows(userId, topic))

\* mutant: the user predicate is missing from the topics query
TopicsWhereAnyUser(r, userId, category) ==
    (category.t = "string" /\ category.s # <<>> /\ category.s # All)
        => r.category = category.s

\* GET /topics: and(eq(userId), category && category !== "all" ? eq(category) : undefined)
TopicsWhere(r, userId, category) ==
    /\ r.userId = userId
    /\ (category.t = "string" /\ category.s # <<>> /\ category.s # All)
           => r.category = category.s

\* groupBy(topic, category) with max(createdAt) per group
TopicGroups(userId, category) ==
    LET rows == {r \in tasks : TopicsWhere(r, userId, category)}
        pairs == {[topic |-> r.topic, category |-> r.category] : r \in rows}
        last(p) == CHOOSE m \in {r.createdAt : r \in {q \in rows : q.topic = p.topic /\ q.category = p.category}} :
                      \A r \in rows : (r.topic = p.topic /\ r.category = p.category) => r.createdAt <= m
    IN {[topic |-> p.topic, category |-> p.category, createdAt |-> last(p)] : p \in pairs}

TopicsQuery(userId, category) ==
    {[i \in 1..Len(s) |-> [topic |-> s[i].topic, category |-> s[i].category]] :
        s \in OrderedDesc(TopicGroups(userId, category))}

\* order of the category strings under ORDER BY category: by code point,
\* a proper prefix first
RECURSIVE StrLeq(_, _)
CodePoint(c) ==
    CASE c = Space -> 32 [] c = "G" -> 71 [] c = "a" -> 97 [] c = "b" -> 98
      [] c = "e" -> 101 [] c = "l" -> 108 [] c = "n" -> 110 [] c = "r" -> 114
      [] c = "w" -> 119 [] c = "x" -> 120 [] c = "y" -> 121 [] OTHER -> 0
StrLeq(a, b) ==
    IF a = <<>> THEN TRUE
    ELSE IF b = <<>> THEN FALSE
    ELSE IF Head(a) = Head(b) THEN StrLeq(Tail(a), Tail(b))
    ELSE CodePoint(Head(a)) < CodePoint(Head(b))

\* GET /categories: selectDistinct(category) where eq(userId) orderBy(category)
CategoriesQuery(userId) ==
    LET cats == {r.category : r \in RowsOf(userId)}
    IN CHOOSE s \in [1..Cardinality(cats) -> cats] :
          /\ Range(s) = cats
          /\ \A i \in 1..(Len(s) - 1) : StrLeq(s[i], s[i + 1])

\* mutant: the topic is deleted for every user
DeleteTopicWhereAnyUser(r, userId, topic) == r.topic = topic

\* DELETE /topics/:topic: and(eq(userId), eq(topic))
DeleteTopicWhere(r, userId, topic) == r.userId = userId /\ r.topic = topic

\* PUT and DELETE /tasks/:id: and(eq(id), eq(userId))
OwnRowWhere(r, id, userId) == r.id = id /\ r.userId = userId

----------------------------------------------------------------------------
(* Requests and responses *)

NoBody == [topic |-> Undef, category |-> Undef, contents |-> <<>>,
           content |-> Undef, isCompleted |-> Undef]

\* env: whether process.env.GEMINI_API_KEY is set when the request is served
Request(route, auth, param, query, body) ==
    [route |-> route, auth |-> auth, param |-> param, query |-> query, body |-> body,
     env |-> TRUE]

NoResponse == [status |-> 0, kind |-> "none", error |-> "", tasks |-> <<>>,
               topics |-> <<>>, categories |-> <<>>, category |-> <<>>,
               generated |-> <<>>]

\* c.json({ error }, status)
ErrorResponse(status, error) == [NoResponse EXCEPT !.status = status, !.kind = "error", !.error = error]

\* c.json({ message })
MessageResponse(kind) == [NoResponse EXCEPT !.status = 200, !.kind = kind]

Unauthorized == ErrorResponse(401, "Unauthorized")
TaskNotFound == ErrorResponse(404, "Task not found")

\* the answer of zValidator to a body its schema rejects
ValidationFailure == ErrorResponse(400, "validation")

\* app.onError for anything that is not a ZodError
InternalError == ErrorResponse(500, "An internal server error occurred")

\* the provider's answer to the one POST of the generate handler
NoReply == [kind |-> "none", category |-> Undef, hasTasks |-> FALSE, items |-> <<>>]
Replies ==
    {[NoReply EXCEPT !.kind = k] : k \in {"unreachable", "notOk", "badJson", "noText", "textNotJson"}}
    \cup {[kind |-> "parsed", category |-> c, hasTasks |-> h, items |-> IF h THEN <<<<"x">>>> ELSE <<>>] :
            c \in {Undef, JStr(<<>>), JStr(<<"w">>)}, h \in BOOLEAN}

----------------------------------------------------------------------------
(* Validation schemas *)

\* z.string().min(n)
StringMin(v, n) == v.t = "string" /\ Len(v.s) >= n

\* mutant: the contents array may be empty
createBulkTasksSchemaNoMin(body) ==
    /\ StringMin(body.topic, 1)
    /\ body.category.t = "string"
    /\ \A i \in 1..Len(body.contents) : Len(body.contents[i]) >= 1

\* createBulkTasksSchema
createBulkTasksSchema(body) ==
    /\ StringMin(body.topic, 1)
    /\ body.category.t = "string"
    /\ \A i \in 1..Len(body.contents) : Len(body.contents[i]) >= 1
    /\ Len(body.contents) >= 1

\* updateTaskSchema
updateTaskSchema(body) ==
    /\ body.content.t = "undefined" \/ StringMin(body.content, 1)
    /\ body.isCompleted.t = "undefined" \/ body.isCompleted.t = "boolean"

\* generateTasksSchema
generateTasksSchema(body) == StringMin(body.topic, 2)

----------------------------------------------------------------------------
(* Initial state: an empty table, nothing served yet *)

NoRequest == Request("none", NoUser, <<>>, Undef, NoBody)

Init ==
    /\ tasks = {}
    /\ nextId = 1
    /\ now = 1
    /\ req = NoRequest
    /\ resp = NoResponse
    /\ calls = 0
    /\ upstream = NoReply

----------------------------------------------------------------------------
(* Route handlers *)

\* the server takes one request at a time from the first middleware to the
\* response: a handler starts when no request is being answered
Idle == req = NoRequest

\* what a handler that does not touch the table or the provider leaves alone
NoWrite == UNCHANGED <<tasks, nextId, now>>
NoCall == calls' = 0 /\ upstream' = NoReply

GetDoc ==
    /\ Idle
    /\ \E auth \in Principals :
        /\ req' = Request("GET /doc", auth, <<>>, Undef, NoBody)
        /\ resp' = [NoResponse EXCEPT !.status = 200, !.kind = "doc"]
        /\ NoWrite /\ NoCall

GetTopics ==
    /\ Idle
    /\ \E auth \in Principals, category \in {Undef} \cup {JStr(s) : s \in {<<>>, <<"w">>, All}} :
        /\ req' = Request("GET /topics", auth, <<>>, category, NoBody)
        /\ IF auth = NoUser
           THEN resp' = Unauthorized
           ELSE \E result \in TopicsQuery(auth, category) :
                    resp' = [NoResponse EXCEPT !.status = 200, !.kind = "topics", !.topics = result]
        /\ NoWrite /\ NoCall

GetCategories ==
    /\ Idle
    /\ \E auth \in Principals :
        /\ req' = Request("GET /categories", auth, <<>>, Undef, NoBody)
        /\ IF auth = NoUser
           THEN resp' = Unauthorized
           ELSE resp' = [NoResponse EXCEPT !.status = 200, !.kind = "categories",
                                           !.categories = CategoriesQuery(auth)]
        /\ NoWrite /\ NoCall

DeleteTopic ==
    /\ Idle
    /\ \E auth \in Principals, topic \in TopicStrs \ {<<>>} :
        /\ req' = Request("DELETE /topics/:topic", auth, topic, Undef, NoBody)
        /\ IF auth = NoUser
           THEN resp' = Unauthorized /\ UNCHANGED tasks
           ELSE /\ tasks' = {r \in tasks : ~DeleteTopicWhere(r, auth, topic)}
                /\ resp' = MessageResponse("topicDeleted")
        /\ UNCHANGED <<nextId, now>> /\ NoCall

GetTasks ==
    /\ Idle
    /\ \E auth \in Principals, topic \in {Undef} \cup {JStr(s) : s \in TopicStrs} :
        /\ req' = Request("GET /tasks", auth, <<>>, topic, NoBody)
        /\ IF auth = NoUser
           THEN resp' = Unauthorized
           ELSE \E result \in TasksQuery(auth, topic) :
                    resp' = [NoResponse EXCEPT !.status = 200, !.kind = "tasks", !.tasks = result]
        /\ NoWrite /\ NoCall

\* const finalCategory = category.trim() || 'General'
finalCategory(category) == IF Trim(category) = <<>> THEN General ELSE Trim(category)

\* mutant: the map loses the last content string
tasksToInsertDropLast(contents, topic, category, userId) ==
    [i \in 1..(Len(contents) - 1) |->
        [content |-> contents[i], topic |-> topic, category |-> category, userId |-> userId]]

\* contents.map(content => ({ content, topic, category: finalCategory, userId }))
tasksToInsert(contents, topic, category, userId) ==
    [i \in 1..Len(contents) |->
        [content |-> contents[i], topic |-> topic, category |-> category, userId |-> userId]]

\* db.insert(tasks).values(...).returning(): the serial column numbers the
\* rows in the order of the values, created_at defaults to the statement's now()
InsertReturning(values, firstId, createdAt) ==
    [i \in 1..Len(values) |->
        NewRow(firstId + i - 1, values[i].userId, values[i].topic, values[i].category,
               values[i].content, createdAt)]

PostTasksBulk ==
    /\ Idle
    /\ \E auth \in Principals, topic \in TopicStrs, category \in CategoryJson,
       contents \in ContentsArrays :
        LET body == [NoBody EXCEPT !.topic = JStr(topic), !.category = category,
                                   !.contents = contents]
        IN /\ req' = Request("POST /tasks/bulk", auth, <<>>, Undef, body)
           /\ NoCall
           /\ IF ~createBulkTasksSchema(body)
              THEN resp' = ValidationFailure /\ UNCHANGED <<tasks, nextId, now>>
              ELSE IF auth = NoUser
              THEN resp' = Unauthorized /\ UNCHANGED <<tasks, nextId, now>>
              ELSE /\ nextId + Len(contents) - 1 <= MaxId
                   /\ LET newTasks == InsertReturning(
                               tasksToInsert(contents, topic, finalCategory(category.s), auth),
                               nextId, now)
                      IN /\ tasks' = tasks \cup Range(newTasks)
                         /\ nextId' = nextId + Len(contents)
                         /\ now' = now + 1
                         /\ resp' = [NoResponse EXCEPT !.status = 201, !.kind = "tasks",
                                                       !.tasks = newTasks]

\* db.update(tasks).set({ content, isCompleted }): a field that is undefined
\* is left out of the SET clause
SetFields(r, content, isCompleted) ==
    [r EXCEPT !.content = IF content.t = "string" THEN content.s ELSE @,
              !.isCompleted = IF isCompleted.t = "boolean" THEN isCompleted.b ELSE @]

PutTask ==
    /\ Idle
    /\ \E auth \in Principals, param \in IdParams, content \in ContentJson,
       isCompleted \in IsCompletedJson :
        LET body == [NoBody EXCEPT !.content = content, !.isCompleted = isCompleted]
            id == parseInt(param)
            matched == {r \in tasks : OwnRowWhere(r, id, auth)}
        IN /\ req' = Request("PUT /tasks/:id", auth, param, Undef, body)
           /\ NoCall /\ UNCHANGED <<nextId, now>>
           /\ IF ~updateTaskSchema(body)
              THEN resp' = ValidationFailure /\ UNCHANGED tasks
              ELSE IF auth = NoUser
              THEN resp' = Unauthorized /\ UNCHANGED tasks
              ELSE IF content.t = "undefined" /\ isCompleted.t = "undefined"
              \* set({ content: undefined, isCompleted: undefined }) leaves no
              \* column to set: the query builder throws ("No values to set"),
              \* nothing is sent to the store and app.onError answers
              THEN resp' = InternalError /\ UNCHANGED tasks
              ELSE IF id = NaN
              \* NaN is no value of the integer id column: the statement fails
              \* in the store and app.onError answers
              THEN resp' = InternalError /\ UNCHANGED tasks
              ELSE IF matched = {}
              THEN resp' = TaskNotFound /\ UNCHANGED tasks
              ELSE LET updatedTask == SetFields(CHOOSE r \in matched : TRUE, content, isCompleted)
                   IN /\ tasks' = (tasks \ matched) \cup {updatedTask}
                      /\ resp' = [NoResponse EXCEPT !.status = 200, !.kind = "task",
                                                    !.tasks = <<updatedTask>>]

DeleteTask ==
    /\ Idle
    /\ \E auth \in Principals, param \in IdParams :
        LET id == parseInt(param)
            matched == {r \in tasks : OwnRowWhere(r, id, auth)}
        IN /\ req' = Request("DELETE /tasks/:id", auth, param, Undef, NoBody)
           /\ NoCall /\ UNCHANGED <<nextId, now>>
           /\ IF auth = NoUser
              THEN resp' = Unauthorized /\ UNCHANGED tasks
              ELSE IF id = NaN
              THEN resp' = InternalError /\ UNCHANGED tasks
              ELSE IF matched = {}
              THEN resp' = TaskNotFound /\ UNCHANGED tasks
              ELSE /\ tasks' = tasks \ matched
                   /\ resp' = MessageResponse("taskDeleted")

\* the body of the try block of the generate handler for one reply of the
\* provider: every throw lands in the catch block
GenerateResponse(reply) ==
    IF reply.kind = "parsed"
    THEN [NoResponse EXCEPT !.status = 200, !.kind = "generated",
             !.category = IF reply.category.t = "string" /\ reply.category.s # <<>>
                          THEN reply.category.s ELSE General,
             !.generated = IF reply.hasTasks THEN reply.items ELSE <<>>]
    ELSE ErrorResponse(500, "Failed to generate AI content.")

\* mutant: the handler stores the tasks it generated for the topic
PostGeneratePersisting ==
    /\ Idle
    /\ \E auth \in Users, reply \in {r \in Replies : r.kind = "parsed" /\ r.hasTasks} :
        LET body == [NoBody EXCEPT !.topic = JStr(<<"a", "b">>)]
            newTasks == InsertReturning(
                tasksToInsert(reply.items, body.topic.s, GenerateResponse(reply).category, auth),
                nextId, now)
        IN /\ nextId + Len(reply.items) - 1 <= MaxId
           /\ req' = Request("POST /generate", auth, <<>>, Undef, body)
           /\ calls' = 1
           /\ upstream' = reply
           /\ resp' = GenerateResponse(reply)
           /\ tasks' = tasks \cup Range(newTasks)
           /\ nextId' = nextId + Len(reply.items)
           /\ now' = now + 1

PostGenerate ==
    /\ Idle
    /\ \E auth \in Principals, topic \in {Undef} \cup {JStr(s) : s \in TopicStrs},
       apiKey \in BOOLEAN :
        LET body == [NoBody EXCEPT !.topic = topic]
        IN /\ req' = [Request("POST /generate", auth, <<>>, Undef, body) EXCEPT !.env = apiKey]
           /\ NoWrite
           /\ IF ~generateTasksSchema(body)
              THEN resp' = ValidationFailure /\ NoCall
              ELSE IF ~apiKey
              THEN resp' = ErrorResponse(500, "Service is not configured.") /\ NoCall
              ELSE \E reply \in Replies :
                      /\ calls' = 1
                      /\ upstream' = reply
                      /\ resp' = GenerateResponse(reply)

----------------------------------------------------------------------------

\* the response has gone out; the server waits for the next request
Deliver ==
    /\ ~Idle
    /\ req' = NoRequest
    /\ resp' = NoResponse
    /\ calls' = 0
    /\ upstream' = NoReply
    /\ UNCHANGED <<tasks, nextId, now>>

Next ==
    \/ Deliver
    \/ GetDoc
    \/ GetTopics
    \/ GetCategories
    \/ DeleteTopic
    \/ GetTasks
    \/ PostTasksBulk
    \/ PutTask
    \/ DeleteTask
    \/ PostGenerate

Spec == Init /\ [][Next]_vars

----------------------------------------------------------------------------
(* Vocabulary of the properties *)

BULK == "POST /tasks/bulk"
PUT == "PUT /tasks/:id"
DELETE_TASK == "DELETE /tasks/:id"
DELETE_TOPIC == "DELETE /topics/:topic"
GENERATE == "POST /generate"

\* a string of white space only, the empty string included
IsBlank(s) == \A i \in 1..Len(s) : s[i] = Space

\* c is s without the white space at its two ends
Stripped(s, c) ==
    \E j \in 0..Len(s), k \in 0..Len(s) :
        /\ j + k <= Len(s)
        /\ c = SubSeq(s, j + 1, Len(s) - k)
        /\ \A i \in 1..j : s[i] = Space
        /\ \A i \in (Len(s) - k + 1)..Len(s) : s[i] = Space
        /\ c # <<>> => (c[1] # Space /\ c[Len(c)] # Space)

\* a bulk-create body of the declared shape
ValidBulk(body) ==
    /\ body.topic.t = "string" /\ body.topic.s # <<>>
    /\ body.category.t = "string"
    /\ body.contents # <<>>
    /\ \A i \in 1..Len(body.contents) : body.contents[i] # <<>>

----------------------------------------------------------------------------
----------------------------------------------------------------------------
(* C2: a bulk-create whose category is blank or missing from the body      *)
(* always creates its rows with category "General"; a non-blank category  *)
(* is stored as supplied.                                                  *)
C2_BlankOrMissingCategoryIsGeneral ==
    (/\ req.route = BULK
     /\ req.auth \in Users
     /\ req.body.topic.t = "string" /\ req.body.topic.s # <<>>
     /\ req.body.contents # <<>>
     /\ \A i \in 1..Len(req.body.contents) : req.body.contents[i] # <<>>)
    => /\ resp.status = 201
       /\ Len(resp.tasks) = Len(req.body.contents)
       /\ \A i \in 1..Len(resp.tasks) :
            /\ resp.tasks[i] \in tasks
            /\ resp.tasks[i].category =
                 IF req.body.category.t = "undefined" \/ IsBlank(req.body.category.s)
                 THEN General
                 ELSE req.body.category.s

----------------------------------------------------------------------------
(* C3: what GET /topics, GET /tasks and GET /categories return to a caller *)
(* comes from rows the caller owns, and no request served for another      *)
(* principal changes what the three listings return to the caller (the     *)
(* topic groups with their latest stamp, the task rows, the categories).   *)
C3_ListingsAreIsolated ==
    [][/\ (req'.route = "GET /topics" /\ resp'.status = 200) =>
            \A i \in 1..Len(resp'.topics) :
                \E r \in tasks' : /\ r.userId = req'.auth
                                  /\ r.topic = resp'.topics[i].topic
                                  /\ r.category = resp'.topics[i].category
       /\ (req'.route = "GET /tasks" /\ resp'.status = 200) =>
            \A i \in 1..Len(resp'.tasks) :
                resp'.tasks[i] \in tasks' /\ resp'.tasks[i].userId = req'.auth
       /\ (req'.route = "GET /categories" /\ resp'.status = 200) =>
            \A i \in 1..Len(resp'.categories) :
                \E r \in tasks' : r.userId = req'.auth /\ r.category = resp'.categories[i]
       /\ \A a \in Users :
            (~Idle' /\ req'.auth # a) =>
                /\ \A c \in {Undef} \cup {JStr(x) : x \in {<<>>, <<"w">>, All, General}} :
                      TopicGroups(a, c)' = TopicGroups(a, c)
                /\ \A t \in {Undef} \cup {JStr(x) : x \in TopicStrs} :
                      TasksRows(a, t)' = TasksRows(a, t)
                /\ CategoriesQuery(a)' = CategoriesQuery(a)
    ]_vars

\* a caller lists its topics while another user owns rows too
C3_Witness ==
    /\ req.route = "GET /topics"
    /\ req.auth \in Users
    /\ resp.status = 200
    /\ Len(resp.topics) >= 1
    /\ \E r \in tasks : r.userId \in Users \ {req.auth}

----------------------------------------------------------------------------
(* C4: PUT and DELETE /tasks/:id by a caller on an id owned by another     *)
(* user answer 404 "Task not found", as for an id of no row, and change    *)
(* no row.                                                                 *)
C4_ForeignIdIsNotFound ==
    [][(/\ req'.route \in {PUT, DELETE_TASK}
        /\ req'.auth \in Users
        /\ req'.route = PUT =>
               /\ req'.body.content.t = "undefined" \/
                     (req'.body.content.t = "string" /\ req'.body.content.s # <<>>)
               /\ req'.body.isCompleted.t \in {"undefined", "boolean"}
        /\ \E r \in tasks : req'.param = <<Digits[r.id]>> /\ r.userId # req'.auth)
       => /\ resp'.status = 404
          /\ resp'.error = "Task not found"
          /\ tasks' = tasks
    ]_vars

----------------------------------------------------------------------------
(* C5: DELETE /topics/:topic by a caller removes every row of the caller   *)
(* under that topic and leaves every row of another user or another topic  *)
(* in place, unchanged.                                                    *)
C5_DeleteTopicFrame ==
    [][(req'.route = DELETE_TOPIC /\ req'.auth \in Users) =>
        /\ \A r \in tasks :
              (r.userId = req'.auth /\ r.topic = req'.param) => r \notin tasks'
        /\ \A r \in tasks :
              (r.userId # req'.auth \/ r.topic # req'.param) => r \in tasks'
        /\ tasks' \subseteq tasks
    ]_vars

\* a topic has been deleted for its caller while another user's row under
\* the same topic is still there
C5_Witness ==
    /\ req.route = DELETE_TOPIC
    /\ req.auth \in Users
    /\ resp.status = 200
    /\ Cardinality(tasks) < nextId - 1
    /\ \E r \in tasks : r.topic = req.param /\ r.userId # req.auth

----------------------------------------------------------------------------
(* C6: DELETE /topics/:topic for a topic under which the caller owns no    *)
(* row answers 404 and changes no row.                                     *)
C6_DeleteMissingTopicIsNotFound ==
    [][(/\ req'.route = DELETE_TOPIC
        /\ req'.auth \in Users
        /\ ~\E r \in tasks : r.userId = req'.auth /\ r.topic = req'.param)
       => (resp'.status = 404 /\ tasks' = tasks)
    ]_vars

----------------------------------------------------------------------------
(* C7: the rows a bulk-create has just made are in what GET /tasks returns *)
(* to the caller, for the topic and without a topic filter, with the       *)
(* submitted content and isCompleted = false; and GET /tasks returns every *)
(* row of the caller under the topic it filters on, as stored.             *)
C7_CreateThenFetch ==
    /\ (req.route = BULK /\ resp.status = 201) =>
          \A q \in {Undef, req.body.topic} :
              \A listed \in TasksQuery(req.auth, q) :
                  \A i \in 1..Len(req.body.contents) :
                      \E j \in 1..Len(listed) :
                          /\ listed[j].id = resp.tasks[i].id
                          /\ listed[j].content = req.body.contents[i]
                          /\ listed[j].isCompleted = FALSE
    /\ (req.route = "GET /tasks" /\ resp.status = 200) =>
          \A r \in tasks :
              (/\ r.userId = req.auth
               /\ (req.query.t = "string" /\ req.query.s # <<>>) => r.topic = req.query.s)
              => r \in Range(resp.tasks)

\* a caller fetches the tasks of a topic and gets two rows back
C7_Witness ==
    /\ req.route = "GET /tasks"
    /\ req.query.t = "string" /\ req.query.s # <<>>
    /\ resp.status = 200
    /\ Len(resp.tasks) = 2
    /\ \A i \in 1..2 : resp.tasks[i].topic = req.query.s /\ ~resp.tasks[i].isCompleted

----------------------------------------------------------------------------
(* C8: on every route but the documentation route a request without a      *)
(* principal is answered 401 whatever its body is, and no outbound call    *)
(* is made for it.                                                         *)
C8_NoPrincipalIs401 ==
    (~Idle /\ req.route # "GET /doc" /\ req.auth = NoUser)
    => (resp.status = 401 /\ calls = 0)

----------------------------------------------------------------------------
(* C9: a body that violates its declared shape is answered 400 and nothing *)
(* of it is applied: no row is inserted, changed or removed and no         *)
(* outbound call is made; a generate topic of two characters passes        *)
(* validation.                                                             *)
InvalidBody(r) ==
    \/ /\ r.route = BULK
       /\ \/ r.body.topic.s = <<>>
          \/ r.body.contents = <<>>
          \/ \E i \in 1..Len(r.body.contents) : r.body.contents[i] = <<>>
    \/ /\ r.route = PUT
       /\ \/ (r.body.content.t = "string" /\ r.body.content.s = <<>>)
          \/ r.body.isCompleted.t \notin {"undefined", "boolean"}
    \/ /\ r.route = GENERATE
       /\ r.body.topic.t = "string"
       /\ Len(r.body.topic.s) < 2

C9_InvalidBodyIsRejectedWhole ==
    [][/\ InvalidBody(req') =>
            /\ resp'.status = 400
            /\ tasks' = tasks
            /\ nextId' = nextId
            /\ calls' = 0
       /\ (req'.route = GENERATE /\ req'.body.topic.t = "string"
              /\ Len(req'.body.topic.s) = 2) => resp'.status # 400
    ]_vars

\* a bulk-create with one good and one empty content string has been
\* rejected while the caller is authenticated
C9_Witness ==
    /\ req.route = BULK
    /\ req.auth \in Users
    /\ req.body.topic.s # <<>>
    /\ Len(req.body.contents) = 2
    /\ req.body.contents[1] # <<>>
    /\ req.body.contents[2] = <<>>
    /\ resp.status = 400

----------------------------------------------------------------------------
(* C10: POST /generate makes one outbound call and never a second; a       *)
(* provider answer that is not a success, or whose body is empty or not    *)
(* the expected JSON, is answered 502; a success is answered with the      *)
(* category, "General" when absent, and the tasks, empty when absent.      *)
C10_UpstreamFailureIs502 ==
    (req.route = GENERATE /\ upstream.kind # "none") =>
        /\ calls = 1
        /\ upstream.kind \in {"notOk", "badJson", "noText", "textNotJson"} => resp.status = 502
        /\ upstream.kind = "parsed" =>
              /\ resp.status = 200
              /\ resp.category = IF upstream.category.t = "string" /\ upstream.category.s # <<>>
                                 THEN upstream.category.s ELSE General
              /\ resp.generated = IF upstream.hasTasks THEN upstream.items ELSE <<>>

----------------------------------------------------------------------------
(* C11: POST /generate stores nothing: whatever its outcome (success,      *)
(* provider failure, unparseable reply, missing key, rejected body) the    *)
(* table, the id sequence and the clock of the store are the same before   *)
(* and after; a row only ever appears through POST /tasks/bulk.            *)
C11_GenerateDoesNotPersist ==
    [][/\ req'.route = GENERATE =>
            (tasks' = tasks /\ nextId' = nextId /\ now' = now)
       /\ (tasks' \ tasks # {}) =>
            (req'.route \in {BULK, PUT} /\ (req'.route = PUT => Cardinality(tasks') = Cardinality(tasks)))
    ]_vars

\* tasks have been generated and returned while the table holds rows
C11_Witness ==
    /\ req.route = GENERATE
    /\ resp.status = 200
    /\ resp.generated # <<>>
    /\ upstream.kind = "parsed"
    /\ tasks # {}

----------------------------------------------------------------------------
(* C12: PUT /tasks/:id by the owner of the row with any valid partial body *)
(* (content, isCompleted, both or neither) answers 200 with the updated    *)
(* row, sets exactly the fields the body holds, keeps the absent field and *)
(* id, userId, topic, category, parentId and createdAt as they were, and   *)
(* leaves every other row unchanged.                                       *)
C12_UpdateSetsExactlyPresentFields ==
    [][\A r \in tasks :
        (/\ req'.route = PUT
         /\ req'.auth = r.userId
         /\ req'.param = <<Digits[r.id]>>
         /\ req'.body.content.t = "undefined" \/
               (req'.body.content.t = "string" /\ req'.body.content.s # <<>>)
         /\ req'.body.isCompleted.t \in {"undefined", "boolean"})
        => LET body == req'.body
               updated ==
                   [id |-> r.id, userId |-> r.userId, topic |-> r.topic,
                    category |-> r.category, parentId |-> r.parentId,
                    createdAt |-> r.createdAt,
                    content |-> IF body.content.t = "string" THEN body.content.s
                                ELSE r.content,
                    isCompleted |-> IF body.isCompleted.t = "boolean" THEN body.isCompleted.b
                                    ELSE r.isCompleted]
           IN /\ resp'.status = 200
              /\ resp'.tasks = <<updated>>
              /\ tasks' = (tasks \ {r}) \cup {updated}
    ]_vars

----------------------------------------------------------------------------
(* GET /topics answered 200 to its caller: with the filter in force the    *)
(* answer holds exactly the (topic, category) pairs of the caller's rows   *)
(* of the queried category, without it the pairs of all the caller's rows; *)
(* each pair once, the pair with the later latest createdAt first.         *)
TopicsListingOk(filtered) ==
    LET mine == {r \in tasks : r.userId = req.auth /\ (filtered => r.category = req.query.s)}
        pairs == {[topic |-> r.topic, category |-> r.category] : r \in mine}
        stamps(p) == {r.createdAt : r \in {q \in mine : q.topic = p.topic /\ q.category = p.category}}
        latest(p) == CHOOSE m \in stamps(p) : \A n \in stamps(p) : n <= m
    IN /\ resp.status = 200
       /\ Range(resp.topics) = pairs
       /\ Len(resp.topics) = Cardinality(pairs)
       /\ \A i \in 1..Len(resp.topics) : \A j \in (i + 1)..Len(resp.topics) :
             latest(resp.topics[i]) >= latest(resp.topics[j])

(* C13 as stated: GET /topics returns each distinct (topic, category) pair *)
(* of the caller's rows once, latest group first; with a category filter   *)
(* value that is any non-empty string exactly the pairs of that category,  *)
(* with no filter all the pairs; an empty sequence with 200 when nothing   *)
(* matches.                                                                *)
C13_AnyNonEmptyFilterSelects ==
    (req.route = "GET /topics" /\ req.auth \in Users) =>
        TopicsListingOk(req.query.t = "string" /\ req.query.s # <<>>)

(* C13 as amended: the same, but the filter value "all" selects like no    *)
(* filter: a filter value that is non-empty and not "all" returns exactly  *)
(* the pairs of that category; no filter, an empty value or "all" returns  *)
(* all the caller's pairs.                                                 *)
C13_TopicsListing ==
    (req.route = "GET /topics" /\ req.auth \in Users) =>
        TopicsListingOk(req.query.t = "string" /\ req.query.s # <<>> /\ req.query.s # All)

\* a caller lists the topics of one category and gets two pairs, the later
\* group first
C13_Witness ==
    /\ req.route = "GET /topics"
    /\ req.auth \in Users
    /\ req.query = JStr(<<"w">>)
    /\ resp.status = 200
    /\ Len(resp.topics) = 2
    /\ resp.topics[1] # resp.topics[2]
    /\ \E r, q \in tasks :
          /\ r.topic = resp.topics[1].topic /\ q.topic = resp.topics[2].topic
          /\ r.createdAt > q.createdAt

====
